---- MODULE Spec2Model ----
(***************************************************************************)
(* Model of the weekly hotspot pipeline of tlc_hotspot_pack:               *)
(*   build_metrics -> overall GOOD/BAD selection -> min-support filter ->  *)
(*   add_window_scores -> per-window top/bottom selection -> frames.       *)
(* The pipeline is a single batch pass; every stage is one action and pc   *)
(* is the position in build_hotspots_json / main.                          *)
(*                                                                         *)
(* Numbers that pandas holds as float64 are modelled as exact rationals    *)
(* [nan, n, d] (d > 0), NaN being the value with nan = TRUE.  A DataFrame  *)
(* is modelled as the set of its rows; where the code depends on the row   *)
(* order (rank(method="first"), sort_values ties) the order is a           *)
(* nondeterministic choice, since the GROUP BY result order is unspecified.*)
(***************************************************************************)
EXTENDS Integers, Sequences, FiniteSets, TLC

(***************************************************************************)
(* Bounds of the model.                                                    *)
(***************************************************************************)
NumZones == 3
MaxPay == 2
MaxTip == 1
MaxUnits == 3
MaxSelN == 2
MaxWinN == 2
MaxBinMinutes == 9
ScoreBits == 6
MaxValue == 102
ValueBits == 2
MaxPatches == 2
MaxFrames == 2
MaxInputs == 3

(***************************************************************************)
(* Program constants.                                                      *)
(***************************************************************************)
BIN_MINUTES_DEFAULT == 20
GOOD_N_DEFAULT == 200
BAD_N_DEFAULT == 120
WIN_GOOD_N_DEFAULT == 80
WIN_BAD_N_DEFAULT == 40
MIN_TRIPS_DEFAULT == 10
WEEK_START_YEAR == 2025
WEEK_START_MONTH == 1
WEEK_START_DAY == 6
MINUTES_PER_DAY == 1440

Zones == 1..NumZones

(***************************************************************************)
(* float64 values as exact rationals, with NaN.                            *)
(***************************************************************************)
NaN == [nan |-> TRUE, n |-> 0, d |-> 1]

Rat(a, b) == [nan |-> FALSE, n |-> a, d |-> b]

IsNaN(x) == x.nan

RECURSIVE Gcd(_, _)
Gcd(a, b) == IF b = 0 THEN a ELSE Gcd(b, a % b)

\* a/b in lowest terms (b > 0): equal values have one representation
Norm(a, b) ==
  LET m == IF a < 0 THEN -a ELSE a
      g == Gcd(m, b)
  IN  Rat(a \div g, b \div g)

RLe(x, y) == x.n * y.d <= y.n * x.d
RLt(x, y) == x.n * y.d < y.n * x.d
REq(x, y) == x.n * y.d = y.n * x.d

\* IEEE arithmetic: any NaN operand gives NaN
RAdd(x, y) ==
  IF IsNaN(x) \/ IsNaN(y) THEN NaN ELSE Norm(x.n * y.d + y.n * x.d, x.d * y.d)

RSub(x, y) ==
  IF IsNaN(x) \/ IsNaN(y) THEN NaN ELSE Norm(x.n * y.d - y.n * x.d, x.d * y.d)

\* x / y for y > 0
RDiv(x, y) ==
  IF IsNaN(x) \/ IsNaN(y) THEN NaN ELSE Norm(x.n * y.d, x.d * y.n)

\* k/100 * x
RScale(k, x) == IF IsNaN(x) THEN NaN ELSE Norm(k * x.n, 100 * x.d)

RMin(S) == CHOOSE m \in S : \A v \in S : RLe(m, v)
RMax(S) == CHOOSE m \in S : \A v \in S : RLe(v, m)


(***************************************************************************)
(* Nullable columns: <<>> is NULL, <<v>> is the value v.                   *)
(***************************************************************************)
NULL == <<>>

Some(v) == <<v>>

Opt(S) == {NULL} \cup {Some(v) : v \in S}

Min2(a, b) == IF a <= b THEN a ELSE b
Max2(a, b) == IF a >= b THEN a ELSE b

\* sum of the second components of a set of pairs <<x, v>>
RECURSIVE SumPairs(_)
SumPairs(P) ==
  IF P = {} THEN 0
  ELSE LET x == CHOOSE y \in P : TRUE IN x[2] + SumPairs(P \ {x})

\* all orders (sequences without repetition) of the elements of a finite set
RECURSIVE Orders(_)
Orders(S) ==
  IF S = {} THEN {<<>>}
  ELSE UNION {{<<x>> \o o : o \in Orders(S \ {x})} : x \in S}

(***************************************************************************)
(* State.  The inputs (the arguments and the trip records, a bag given as  *)
(* groups of n identical records) do not change after the call.            *)
(***************************************************************************)
VARIABLES
  variant,               \* "json": build_hotspots_json, "cli": main() of the builders
  bin_minutes, good_n, bad_n, win_good_n, win_bad_n, min_trips_per_window,
  trips,                 \* the parquet rows
  geo_ids,               \* LocationIDs of the taxi-zone shapefile
  pc,                    \* position in the pipeline
  bin_w,                 \* the bin width handed to build_metrics
  df_total, df_win, good_ids, bad_ids, shown_ids, df_scored, df_poly,
  frames, timeline,      \* the payload of build_hotspots_json
  features, markers,     \* the time-slider features and static markers of main()
  score_arg,             \* the argument of a direct call of the score-to-visual functions
  color_hex, rating_1_100, \* what score_to_color_hex and score_to_rating_1_100 return
  client_hex,            \* what the client's scoreToColorHex returns
  dataByTime,            \* app.js: the frames of the payload by their time
  slider_value,          \* app.js: slider.value
  polyTimeout,           \* app.js: the id of the last timer set (0: null)
  timers,                \* app.js: the pending setTimeout callbacks
  timeLabel, polyLayer, markerLayer,  \* app.js: what the page shows
  prop,                  \* patch_hotspot_html: a rating/score/zone_score property
  patched                \* patch_hotspot_html: the runs of the patch on the HTML

args == <<variant, bin_minutes, good_n, bad_n, win_good_n, win_bad_n,
          min_trips_per_window, trips, geo_ids>>

vars == <<variant, bin_minutes, good_n, bad_n, win_good_n, win_bad_n,
          min_trips_per_window, trips, geo_ids, pc, bin_w, df_total, df_win,
          good_ids, bad_ids, shown_ids, df_scored, df_poly, frames, timeline,
          features, markers, score_arg, color_hex, rating_1_100, client_hex,
          dataByTime, slider_value, polyTimeout, timers, timeLabel, polyLayer,
          markerLayer, prop, patched>>

\* the direct calls of the score-to-visual functions
calls == <<score_arg, color_hex, rating_1_100, client_hex>>

\* the page of the client
page == <<dataByTime, slider_value, polyTimeout, timers, timeLabel, polyLayer,
          markerLayer>>

\* the client and the HTML patch
apps == <<page, prop, patched>>

(***************************************************************************)
(* build_metrics: the two DuckDB queries and the day-of-week remap.        *)
(***************************************************************************)
\* mutant of BinStart: the nearest multiple of the width instead of the floor
BinStartNearest(hour, minute, w) ==
  IF w > 0 THEN ((hour * 60 + minute + (w \div 2)) \div w) * w
  ELSE (hour * 60 + minute)

\* FLOOR(x / w) of the SQL, x >= 0 and w # 0 (floating-point division)
FloorDiv(x, w) == IF w > 0 THEN x \div w ELSE -((x + (-w) - 1) \div (-w))

\* CAST(FLOOR((hour_i*60 + minute_i) / bin_minutes) * bin_minutes AS INTEGER)
BinStart(hour, minute, w) == FloorDiv(hour * 60 + minute, w) * w

\* lambda d: 6 if d == 0 else d - 1
DowM(d) == IF d = 0 THEN 6 ELSE d - 1

DowNames == <<"Mon", "Tue", "Wed", "Thu", "Fri", "Sat", "Sun">>

\* WHERE PULocationID IS NOT NULL AND pickup_datetime IS NOT NULL
Base(T) == {t \in T : t.PULocationID # NULL /\ t.pickup_datetime # NULL}

TripZone(t) == t.PULocationID[1]
TripDow(t) == t.pickup_datetime[1]
TripBin(t, w) == BinStart(t.pickup_datetime[2], t.pickup_datetime[3], w)

Count(S) == SumPairs({<<t, t.n>> : t \in S})

\* mutant of AvgPay: a NULL counts as 0
AvgPayNullAsZero(S) ==
  Norm(SumPairs({<<t, t.driver_pay[1] * t.n>> : t \in {u \in S : u.driver_pay # NULL}}),
       Count(S))

\* AVG(col): the mean over the non-NULL values, NULL (NaN in pandas) if none
AvgPay(S) ==
  LET nn == {t \in S : t.driver_pay # NULL}
  IN  IF nn = {} THEN NaN
      ELSE Norm(SumPairs({<<t, t.driver_pay[1] * t.n>> : t \in nn}), Count(nn))

AvgTips(S) ==
  LET nn == {t \in S : t.tips # NULL}
  IN  IF nn = {} THEN NaN
      ELSE Norm(SumPairs({<<t, t.tips[1] * t.n>> : t \in nn}), Count(nn))

\* mutant of SqlTotal: the records without a pickup time are counted too
SqlTotalAnyTime(T) ==
  {[PULocationID |-> z,
    pickups_total |-> Count({t \in T : t.PULocationID = Some(z)})] :
     z \in {t.PULocationID[1] : t \in {u \in T : u.PULocationID # NULL}}}

\* sql_total: SELECT PULocationID, COUNT(*) ... GROUP BY 1
SqlTotal(T) ==
  {[PULocationID |-> z,
    pickups_total |-> Count({t \in Base(T) : TripZone(t) = z})] :
     z \in {TripZone(t) : t \in Base(T)}}

\* sql_win: ... GROUP BY 1,2,3, then dow_m and dow
SqlWin(T, w) ==
  LET keys == {<<TripZone(t), TripDow(t), TripBin(t, w)>> : t \in Base(T)}
      grp(k) == {t \in Base(T) : <<TripZone(t), TripDow(t), TripBin(t, w)>> = k}
  IN  {[PULocationID |-> k[1], dow_i |-> k[2], dow_m |-> DowM(k[2]),
        dow |-> DowNames[DowM(k[2]) + 1], bin_start_min |-> k[3],
        pickups |-> Count(grp(k)),
        avg_driver_pay |-> AvgPay(grp(k)),
        avg_tips |-> AvgTips(grp(k))] : k \in keys}

(***************************************************************************)
(* The tlc_hotspot_pack variant: per-minute aggregates, rolled up in main. *)
(***************************************************************************)
\* sql_win of the pack: ... GROUP BY 1,2,3,4 (zone, dow, hour, minute)
SqlWinRaw(T) ==
  LET key(t) == <<TripZone(t), TripDow(t), t.pickup_datetime[2], t.pickup_datetime[3]>>
      grp(k) == {t \in Base(T) : key(t) = k}
  IN  {[PULocationID |-> k[1], dow_i |-> k[2], dow_m |-> DowM(k[2]),
        dow |-> DowNames[DowM(k[2]) + 1], hour |-> k[3], minute |-> k[4],
        pickups |-> Count(grp(k)),
        avg_driver_pay |-> AvgPay(grp(k)),
        avg_tips |-> AvgTips(grp(k))] : k \in {key(t) : t \in Base(T)}}

\* dfw["minute_bin"] = (dfw["minute"] // bin_minutes) * bin_minutes
minute_bin(minute, w) == FloorDiv(minute, w) * w

\* dfw["minute_of_day"] = (dfw["hour"] * 60) + dfw["minute_bin"]
minute_of_day(hour, minute, w) == (hour * 60) + minute_bin(minute, w)

\* the sum of the second components of a set of <<row, float>> pairs
RECURSIVE RSumPairs(_)
RSumPairs(P) ==
  IF P = {} THEN Rat(0, 1)
  ELSE LET x == CHOOSE y \in P : TRUE IN RAdd(x[2], RSumPairs(P \ {x}))

\* pandas "mean" of a group's column: the NaN are skipped, NaN if nothing is left
PdMean(P) ==
  LET nn == {x \in P : ~IsNaN(x[2])}
  IN  IF nn = {} THEN NaN ELSE RDiv(RSumPairs(nn), Rat(Cardinality(nn), 1))

\* dfw.groupby(["PULocationID", "dow_m", "dow", "minute_of_day"]).agg(
\*   pickups=("pickups", "sum"), avg_driver_pay=("avg_driver_pay", "mean"), ...)
RollUp(df, w) ==
  LET key(r) == <<r.PULocationID, r.dow_m, minute_of_day(r.hour, r.minute, w)>>
      grp(k) == {r \in df : key(r) = k}
  IN  {[PULocationID |-> k[1], dow_m |-> k[2], dow |-> DowNames[k[2] + 1],
        minute_of_day |-> k[3],
        pickups |-> SumPairs({<<r, r.pickups>> : r \in grp(k)}),
        avg_driver_pay |-> PdMean({<<r, r.avg_driver_pay>> : r \in grp(k)}),
        avg_tips |-> PdMean({<<r, r.avg_tips>> : r \in grp(k)})] :
          k \in {key(r) : r \in df}}

(***************************************************************************)
(* Score-to-visual mapping.                                                *)
(***************************************************************************)
\* Python's min(a, b) and max(a, b): the first argument unless the second is
\* strictly smaller (larger); a comparison with NaN is false
PyMin(a, b) == IF ~IsNaN(a) /\ ~IsNaN(b) /\ RLt(b, a) THEN b ELSE a
PyMax(a, b) == IF ~IsNaN(a) /\ ~IsNaN(b) /\ RLt(a, b) THEN b ELSE a

\* mutant of Clamp01: the upper limit is 0.5
ClampToHalf(s) == PyMax(Rat(0, 1), PyMin(Rat(1, 2), s))

\* max(0.0, min(1.0, float(score01)))
Clamp01(s) == PyMax(Rat(0, 1), PyMin(Rat(1, 1), s))

\* Python's round() of x >= 0: to the nearest integer, a half to the even one
PyRound(x) ==
  LET q == x.n \div x.d
      r == x.n % x.d
  IN  IF 2 * r < x.d THEN q
      ELSE IF 2 * r > x.d THEN q + 1
      ELSE IF q % 2 = 0 THEN q ELSE q + 1

\* int(x) for x >= 0
PyInt(x) == x.n \div x.d

\* mutant of score_to_rating_1_100: int() without round()
score_to_rating_truncated(score01) ==
  LET s == Clamp01(score01)
  IN  PyInt(Norm(s.d + 99 * s.n, s.d))

score_to_rating_1_100(score01) ==
  LET s == Clamp01(score01)
  IN  PyRound(Norm(s.d + 99 * s.n, s.d))

\* a + (b - a) * t
lerp(a, b, t) == Norm(a * t.d + (b - a) * t.n, t.d)

HexDigits == <<"0", "1", "2", "3", "4", "5", "6", "7", "8", "9",
               "a", "b", "c", "d", "e", "f">>

\* mutant of Hex02: the format {n:x}, without the zero padding
HexUnpadded(n) ==
  IF n < 16 THEN HexDigits[n + 1]
  ELSE HexDigits[(n \div 16) + 1] \o HexDigits[(n % 16) + 1]

\* the format {n:02x}, 0 <= n <= 255
Hex02(n) == HexDigits[(n \div 16) + 1] \o HexDigits[(n % 16) + 1]

\* The channels are computed on the exact score.  Inside the pipeline the
\* float sum of score01 can be one ulp below the exact value (0.6 + 0.3 + 0.1
\* is 0.9999999999999999), so that int() gives a channel one lower there.
score_to_color_hex(score01) ==
  LET s == Clamp01(score01)
      lo == RLe(s, Rat(1, 2))
      t == IF lo THEN Norm(2 * s.n, s.d) ELSE Norm(2 * s.n - s.d, s.d)
      r == IF lo THEN PyInt(lerp(230, 255, t)) ELSE PyInt(lerp(255, 0, t))
      g == IF lo THEN PyInt(lerp(0, 215, t)) ELSE PyInt(lerp(215, 176, t))
      b == IF lo THEN 0 ELSE PyInt(lerp(0, 80, t))
  IN  "#" \o Hex02(r) \o Hex02(g) \o Hex02(b)

\* the client (app.js): clamp01(x) = Math.max(0, Math.min(1, x)); Math.max and
\* Math.min give NaN if an argument is NaN
clamp01(x) ==
  IF IsNaN(x) THEN NaN
  ELSE IF RLt(x, Rat(0, 1)) THEN Rat(0, 1)
  ELSE IF RLt(Rat(1, 1), x) THEN Rat(1, 1) ELSE x

\* Math.round(x), x >= 0: to the nearest integer, a half upwards
MathRound(x) == (2 * x.n + x.d) \div (2 * x.d)

\* n.toString(16).padStart(2, '0'), 0 <= n <= 255
toHex(n) ==
  IF n < 16 THEN "0" \o HexDigits[n + 1]
  ELSE HexDigits[(n \div 16) + 1] \o HexDigits[(n % 16) + 1]

\* scoreToColorHex(score01) of the client; NaN <= 0.5 is false and
\* Math.round(NaN).toString(16) is "NaN"
scoreToColorHex(score01) ==
  LET s == clamp01(score01)
  IN  IF IsNaN(s) THEN "#NaNNaNNaN"
      ELSE LET lo == RLe(s, Rat(1, 2))
               t == IF lo THEN Norm(2 * s.n, s.d) ELSE Norm(2 * s.n - s.d, s.d)
               r == IF lo THEN MathRound(lerp(230, 255, t))
                    ELSE MathRound(lerp(255, 0, t))
               g == IF lo THEN MathRound(lerp(0, 215, t))
                    ELSE MathRound(lerp(215, 176, t))
               b == IF lo THEN 0 ELSE MathRound(lerp(0, 80, t))
           IN  "#" \o toHex(r) \o toHex(g) \o toHex(b)

(***************************************************************************)
(* add_window_scores.                                                      *)
(***************************************************************************)
\* mutant of minmax: a group of equal values is normalised to 1
minmax_equal_is_one(x, S) ==
  LET s2 == {v \in S : ~IsNaN(v)}
  IN  IF s2 = {} THEN Rat(0, 1)
      ELSE LET mn == RMin(s2)
               mx == RMax(s2)
           IN  IF REq(mx, mn) THEN Rat(1, 1)
               ELSE RDiv(RSub(x, mn), RSub(mx, mn))

\* minmax(s) at the row whose value is x, S being the values of the group
minmax(x, S) ==
  LET s2 == {v \in S : ~IsNaN(v)}
  IN  IF s2 = {} THEN Rat(0, 1)
      ELSE LET mn == RMin(s2)
               mx == RMax(s2)
           IN  IF REq(mx, mn) THEN Rat(0, 1)
               ELSE RDiv(RSub(x, mn), RSub(mx, mn))

\* mutant of SameWindow: the day of the week is ignored
SameTimeOfDay(r, q) == r.bin_start_min = q.bin_start_min

SameWindow(r, q) == r.dow_m = q.dow_m /\ r.bin_start_min = q.bin_start_min

\* 0.60 * vol_n + 0.30 * pay_n + 0.10 * tip_n
Score01(vol_n, pay_n, tip_n) ==
  RAdd(RAdd(RScale(60, vol_n), RScale(30, pay_n)), RScale(10, tip_n))

ScoreRow(r, df) ==
  LET g == {q \in df : SameWindow(r, q)}
      vol_n == minmax(Rat(r.pickups, 1), {Rat(q.pickups, 1) : q \in g})
      pay_n == minmax(r.avg_driver_pay, {q.avg_driver_pay : q \in g})
      tip_n == minmax(r.avg_tips, {q.avg_tips : q \in g})
      score01 == Score01(vol_n, pay_n, tip_n)
  IN  [PULocationID |-> r.PULocationID, dow_i |-> r.dow_i, dow_m |-> r.dow_m,
       dow |-> r.dow, bin_start_min |-> r.bin_start_min, pickups |-> r.pickups,
       avg_driver_pay |-> r.avg_driver_pay, avg_tips |-> r.avg_tips,
       vol_n |-> vol_n, pay_n |-> pay_n, tip_n |-> tip_n, score01 |-> score01,
       rating |-> score_to_rating_1_100(score01),
       fillColor |-> score_to_color_hex(score01)]

add_window_scores(df) == {ScoreRow(r, df) : r \in df}

\* mutant of ScoreShown: the zones not shown are dropped before the scoring
ShownScored(df, shown) ==
  add_window_scores({r \in df : r.PULocationID \in shown})

\* df_scored = add_window_scores(df_win);
\* df_scored = df_scored[df_scored["PULocationID"].isin(shown_ids)]
ScoreShown(df, shown) ==
  {r \in add_window_scores(df) : r.PULocationID \in shown}

(***************************************************************************)
(* Overall GOOD/BAD selection.                                             *)
(***************************************************************************)
\* number of rows of df.head(k) of a frame of n rows; a negative k drops the
\* last -k rows
HeadLen(k, n) == IF k >= 0 THEN Min2(k, n) ELSE Max2(n + k, 0)

\* mutant of SortedOrders: ascending whatever asc says
SortedOrdersAscending(df, asc) ==
  {o \in Orders(df) :
     \A i \in 1..(Cardinality(df) - 1) : o[i].pickups_total <= o[i + 1].pickups_total}

\* the row orders sort_values("pickups_total", ascending=asc) can give; the
\* order of equal keys is not fixed by the default (unstable) sort
SortedOrders(df, asc) ==
  {o \in Orders(df) :
     \A i \in 1..(Cardinality(df) - 1) :
        IF asc THEN o[i].pickups_total <= o[i + 1].pickups_total
        ELSE o[i].pickups_total >= o[i + 1].pickups_total}

\* o.head(k)["PULocationID"]
HeadIds(o, k) == {o[i].PULocationID : i \in 1..HeadLen(k, Len(o))}

\* mutant of BadPool: the good zones are not excluded
BadPoolAll(df, good) == df

BadPool(df, good) == {r \in df : r.PULocationID \notin good}

\* mutant of MinSupport: no row is dropped
MinSupportOff(df, m) == df

\* df_win[df_win["pickups"] >= int(min_trips_per_window)]
MinSupport(df, m) == {r \in df : r.pickups >= m}

(***************************************************************************)
(* Per-window top/bottom selection.                                        *)
(***************************************************************************)
Pos(o, r) == CHOOSE i \in 1..Len(o) : o[i] = r

\* mutant of Rank: method="min", equal scores share the lowest rank
RankMin(r, df, o, asc) ==
  IF IsNaN(r.score01) THEN NaN
  ELSE LET g == {q \in df : SameWindow(r, q) /\ ~IsNaN(q.score01)}
           before == {q \in g : IF asc THEN RLt(q.score01, r.score01)
                                ELSE RLt(r.score01, q.score01)}
       IN  Rat(1 + Cardinality(before), 1)

\* groupby(window)["score01"].rank(method="first", ascending=asc) at row r,
\* o being the row order of the frame: equal scores are ranked in the order
\* they appear, a NaN score has the rank NaN
Rank(r, df, o, asc) ==
  IF IsNaN(r.score01) THEN NaN
  ELSE LET g == {q \in df : SameWindow(r, q) /\ ~IsNaN(q.score01)}
           before == {q \in g :
                        \/ IF asc THEN RLt(q.score01, r.score01)
                           ELSE RLt(r.score01, q.score01)
                        \/ REq(q.score01, r.score01) /\ Pos(o, q) < Pos(o, r)}
       IN  Rat(1 + Cardinality(before), 1)

\* rank <= k, false for a NaN rank
RankLe(rk, k) == ~IsNaN(rk) /\ rk.n <= k * rk.d

Ranked(df, o) ==
  {[PULocationID |-> r.PULocationID, dow_i |-> r.dow_i, dow_m |-> r.dow_m,
    dow |-> r.dow, bin_start_min |-> r.bin_start_min, pickups |-> r.pickups,
    avg_driver_pay |-> r.avg_driver_pay, avg_tips |-> r.avg_tips,
    vol_n |-> r.vol_n, pay_n |-> r.pay_n, tip_n |-> r.tip_n,
    score01 |-> r.score01, rating |-> r.rating, fillColor |-> r.fillColor,
    rank_good |-> Rank(r, df, o, FALSE),
    rank_bad |-> Rank(r, df, o, TRUE)] : r \in df}

\* (rank_good <= win_good_n) | (rank_bad <= win_bad_n)
Poly(df, g, b) == {r \in df : RankLe(r.rank_good, g) \/ RankLe(r.rank_bad, b)}

(***************************************************************************)
(* Frames: the synthetic week and the payload.                             *)
(***************************************************************************)
\* week_start + timedelta(days=dow_m, hours=b // 60, minutes=b % 60); every
\* result lies in January 2025
WeekTs(dow_m, b) ==
  LET total == dow_m * MINUTES_PER_DAY + (b \div 60) * 60 + (b % 60)
  IN  [year |-> WEEK_START_YEAR, month |-> WEEK_START_MONTH,
       day |-> WEEK_START_DAY + (total \div MINUTES_PER_DAY),
       hour |-> (total % MINUTES_PER_DAY) \div 60,
       minute |-> total % 60, second |-> 0]

DecDigits == <<"0", "1", "2", "3", "4", "5", "6", "7", "8", "9">>

Dec02(n) == DecDigits[((n \div 10) % 10) + 1] \o DecDigits[(n % 10) + 1]

\* ts.strftime("%Y-%m-%dT%H:%M:%S")
IsoFormat(ts) ==
  Dec02(ts.year \div 100) \o Dec02(ts.year % 100) \o "-" \o Dec02(ts.month) \o "-"
    \o Dec02(ts.day) \o "T" \o Dec02(ts.hour) \o ":" \o Dec02(ts.minute) \o ":"
    \o Dec02(ts.second)

KeyOf(r) == <<r.dow_m, r.bin_start_min>>

KeyLt(k, l) == k[1] < l[1] \/ (k[1] = l[1] /\ k[2] < l[2])

\* the group keys in the order groupby(["dow_m", "bin_start_min"]) yields them
RECURSIVE SortedKeys(_)
SortedKeys(K) ==
  IF K = {} THEN <<>>
  ELSE LET k == CHOOSE x \in K : \A y \in K \ {x} : KeyLt(x, y)
       IN  <<k>> \o SortedKeys(K \ {k})

OptRat(x) == IF IsNaN(x) THEN NULL ELSE Some(x)

\* the polygon feature of row r (build_hotspots_json: the tag is the window's)
FeatureJson(r, g) ==
  LET tag == IF RankLe(r.rank_good, g) THEN "TOP" ELSE "BOTTOM"
  IN  [time |-> IsoFormat(WeekTs(r.dow_m, r.bin_start_min)),
       LocationID |-> r.PULocationID, tag |-> tag, pickups |-> r.pickups,
       rating |-> r.rating,
       style |-> [color |-> IF tag = "TOP" THEN "#00b050" ELSE "#e60000",
                  weight |-> 2,
                  dashArray |-> IF tag = "TOP" THEN NULL ELSE Some("6,6"),
                  fillColor |-> r.fillColor]]

MarkerJson(r, g) ==
  [zone |-> r.PULocationID,
   tag |-> IF RankLe(r.rank_good, g) THEN "GOOD" ELSE "BAD",
   pickups |-> r.pickups, rating |-> r.rating, color |-> r.fillColor,
   avg_driver_pay |-> OptRat(r.avg_driver_pay), avg_tips |-> OptRat(r.avg_tips)]

\* one frame of build_hotspots_json; zones without geometry are skipped
FrameOf(k, df, zones_by_id, g) ==
  LET rows == {r \in df : KeyOf(r) = k /\ r.PULocationID \in zones_by_id}
  IN  [time |-> IsoFormat(WeekTs(k[1], k[2])),
       polygons |-> {FeatureJson(r, g) : r \in rows},
       markers |-> {MarkerJson(r, g) : r \in rows}]

Frames(df, zones_by_id, g) ==
  LET ks == SortedKeys({KeyOf(r) : r \in df})
  IN  [i \in 1..Len(ks) |-> FrameOf(ks[i], df, zones_by_id, g)]

\* the time-slider feature of row r in main(): the tag is the overall one
FeatureCli(r, good) ==
  LET tag == IF r.PULocationID \in good THEN "GOOD" ELSE "BAD"
  IN  [time |-> IsoFormat(WeekTs(r.dow_m, r.bin_start_min)),
       LocationID |-> r.PULocationID, tag |-> tag, pickups |-> r.pickups,
       rating |-> r.rating,
       style |-> [color |-> IF tag = "GOOD" THEN "#00b050" ELSE "#e60000",
                  weight |-> 2,
                  dashArray |-> IF tag = "GOOD" THEN NULL ELSE Some("6, 6"),
                  fillColor |-> r.fillColor]]

MarkerCli(zid, good) ==
  [zone |-> zid, tag |-> IF zid \in good THEN "GOOD" ELSE "BAD"]

(***************************************************************************)
(* The pipeline, one action per stage.                                     *)
(***************************************************************************)
\* build_hotspots_json(...): bin_minutes goes to build_metrics as passed
build_hotspots_json ==
  /\ pc = "start" /\ variant = "json"
  /\ bin_w' = bin_minutes
  /\ pc' = "metrics"
  /\ UNCHANGED <<args, calls, apps, df_total, df_win, good_ids, bad_ids, shown_ids, df_scored,
                 df_poly, frames, timeline, features, markers>>

\* main(): bin_minutes = max(1, int(args.bin_minutes))
main ==
  /\ pc = "start" /\ variant = "cli"
  /\ bin_w' = Max2(1, bin_minutes)
  /\ pc' = "metrics"
  /\ UNCHANGED <<args, calls, apps, df_total, df_win, good_ids, bad_ids, shown_ids, df_scored,
                 df_poly, frames, timeline, features, markers>>

\* build_metrics(files, bin_w); a zero width makes bin_start_min NULL and the
\* cast to int raises
build_metrics ==
  /\ pc = "metrics"
  /\ IF bin_w = 0 /\ Base(trips) # {}
     THEN /\ pc' = "failed"
          /\ UNCHANGED <<df_total, df_win>>
     ELSE /\ df_total' = SqlTotal(trips)
          /\ df_win' = (IF Base(trips) = {} THEN {} ELSE SqlWin(trips, bin_w))
          /\ pc' = (IF variant = "json" THEN "valid" ELSE "select")
  /\ UNCHANGED <<args, calls, apps, bin_w, good_ids, bad_ids, shown_ids, df_scored, df_poly,
                 frames, timeline, features, markers>>

\* mutant of ValidZones: every zone is kept
AnyZones(df, valid_zone_ids) == df

\* df[df["PULocationID"].isin(valid_zone_ids)]
ValidZones(df, valid_zone_ids) == {r \in df : r.PULocationID \in valid_zone_ids}

\* keep only official TLC taxi zones (build_hotspots_json only)
KeepValidZones ==
  /\ pc = "valid"
  /\ df_total' = ValidZones(df_total, geo_ids)
  /\ df_win' = ValidZones(df_win, geo_ids)
  /\ pc' = "select"
  /\ UNCHANGED <<args, calls, apps, bin_w, good_ids, bad_ids, shown_ids, df_scored, df_poly,
                 frames, timeline, features, markers>>

\* overall good/bad selection pool by total pickups
SelectOverall ==
  /\ pc = "select"
  /\ \E o \in SortedOrders(df_total, FALSE) :
       LET good == HeadIds(o, good_n)
       IN  \E p \in SortedOrders(BadPool(df_total, good), TRUE) :
             LET bad == HeadIds(p, bad_n)
             IN  /\ good_ids' = good
                 /\ bad_ids' = bad
                 /\ shown_ids' = good \cup bad
  /\ pc' = "filter"
  /\ UNCHANGED <<args, calls, apps, bin_w, df_total, df_win, df_scored, df_poly, frames,
                 timeline, features, markers>>

\* filter low-signal windows
FilterLowSignal ==
  /\ pc = "filter"
  /\ df_win' = MinSupport(df_win, min_trips_per_window)
  /\ pc' = "score"
  /\ UNCHANGED <<args, calls, apps, bin_w, df_total, good_ids, bad_ids, shown_ids, df_scored,
                 df_poly, frames, timeline, features, markers>>

\* df_scored = add_window_scores(df_win), then only the zones shown
ScoreWindows ==
  /\ pc = "score"
  /\ df_scored' = ScoreShown(df_win, shown_ids)
  /\ pc' = "rank"
  /\ UNCHANGED <<args, calls, apps, bin_w, df_total, df_win, good_ids, bad_ids, shown_ids,
                 df_poly, frames, timeline, features, markers>>

\* per-window select top/bottom zones for polygons
SelectPerWindow ==
  /\ pc = "rank"
  /\ \E o \in Orders(df_scored) :
       df_poly' = Poly(Ranked(df_scored, o), win_good_n, win_bad_n)
  /\ pc' = (IF variant = "json" THEN "frames" ELSE "features")
  /\ UNCHANGED <<args, calls, apps, bin_w, df_total, df_win, good_ids, bad_ids, shown_ids,
                 df_scored, frames, timeline, features, markers>>

\* build timeline frames and write the payload (build_hotspots_json)
BuildFrames ==
  /\ pc = "frames"
  /\ LET fs == Frames(df_poly, geo_ids \cap shown_ids, win_good_n)
     IN  /\ frames' = fs
         /\ timeline' = [i \in 1..Len(fs) |-> fs[i].time]
  /\ pc' = "done"
  /\ UNCHANGED <<args, calls, apps, bin_w, df_total, df_win, good_ids, bad_ids, shown_ids,
                 df_scored, df_poly, features, markers>>

\* static markers and time-slider polygons (main)
BuildFeatures ==
  /\ pc = "features"
  /\ markers' = {MarkerCli(zid, good_ids) : zid \in geo_ids \cap shown_ids}
  /\ features' = {FeatureCli(r, good_ids) :
                    r \in {q \in df_poly : q.PULocationID \in geo_ids \cap shown_ids}}
  /\ pc' = "done"
  /\ UNCHANGED <<args, calls, apps, bin_w, df_total, df_win, good_ids, bad_ids, shown_ids,
                 df_scored, df_poly, frames, timeline>>

\* a direct call of score_to_color_hex and score_to_rating_1_100 (Python) and
\* of scoreToColorHex (client) on the same score
ScoreToVisual ==
  /\ pc = "call"
  /\ color_hex' = score_to_color_hex(score_arg)
  /\ rating_1_100' = score_to_rating_1_100(score_arg)
  /\ client_hex' = scoreToColorHex(score_arg)
  /\ pc' = "returned"
  /\ UNCHANGED <<args, apps, score_arg, bin_w, df_total, df_win, good_ids, bad_ids,
                 shown_ids, df_scored, df_poly, frames, timeline, features, markers>>

\* main of the pack, to the call of build_metrics: the per-minute aggregates
pack_build_metrics ==
  /\ pc = "start" /\ variant = "pack"
  /\ df_total' = SqlTotal(trips)
  /\ df_win' = SqlWinRaw(trips)
  /\ pc' = "pack_select"
  /\ UNCHANGED <<args, calls, apps, bin_w, good_ids, bad_ids, shown_ids, df_scored, df_poly,
                 frames, timeline, features, markers>>

\* main of the pack: overall GOOD + BAD zones by total pickup volume
pack_select ==
  /\ pc = "pack_select"
  /\ \E o \in SortedOrders(df_total, FALSE) :
       LET good == HeadIds(o, good_n)
       IN  \E p \in SortedOrders(BadPool(df_total, good), TRUE) :
             LET bad == HeadIds(p, bad_n)
             IN  /\ good_ids' = good
                 /\ bad_ids' = bad
                 /\ shown_ids' = good \cup bad
  /\ pc' = "pack_bin"
  /\ UNCHANGED <<args, calls, apps, bin_w, df_total, df_win, df_scored, df_poly, frames,
                 timeline, features, markers>>

\* main of the pack: bin_minutes = max(1, int(args.bin_minutes)), the minute
\* rows binned and re-aggregated at the requested bin size
pack_roll_up ==
  /\ pc = "pack_bin"
  /\ bin_w' = Max2(1, bin_minutes)
  /\ df_win' = RollUp(df_win, bin_w')
  /\ pc' = "pack_rolled"
  /\ UNCHANGED <<args, calls, apps, df_total, good_ids, bad_ids, shown_ids, df_scored,
                 df_poly, frames, timeline, features, markers>>

(***************************************************************************)
(* patch_hotspot_html.py: the rescaling of the rating properties.  A       *)
(* property is NULL (no number: float(v) raises) or <<x>> for the float x. *)
(***************************************************************************)
\* if 0 <= v <= 10.5: v = v * 10.0
LooksLike0To10(x) == RLe(Rat(0, 1), x) /\ RLe(x, Rat(21, 2))

\* def scale_1_100(v), for a v that round() accepts (not NaN)
scale_1_100(v) ==
  IF v = NULL THEN v
  ELSE LET x == v[1]
           y == IF LooksLike0To10(x) THEN Norm(x.n * 10, x.d) ELSE x
           r == PyRound(y)
       IN  Some(Rat(Min2(100, Max2(1, r)), 1))

\* main of patch_hotspot_html.py on the HTML it wrote before (or on a fresh
\* one): p[k] = scale_1_100(p[k]); round() raises on a NaN
patch_main ==
  /\ pc = "patch"
  /\ patched < MaxPatches
  /\ IF prop # NULL /\ IsNaN(prop[1])
     THEN pc' = "failed" /\ UNCHANGED <<prop, patched>>
     ELSE /\ prop' = scale_1_100(prop)
          /\ patched' = patched + 1
          /\ pc' = pc
  /\ UNCHANGED <<args, calls, page, bin_w, df_total, df_win, good_ids, bad_ids,
                 shown_ids, df_scored, df_poly, frames, timeline, features, markers>>

(***************************************************************************)
(* app.js, the client (src/main.py): the page, the slider and its timer.   *)
(* A payload frame is what build_hotspots_json writes: a time, polygons    *)
(* and markers.                                                            *)
(***************************************************************************)
\* formatTimeLabel: the weekday, hour and minute of the time are shown (here
\* the day of the month for the weekday); the date and the seconds are dropped
formatTimeLabel(iso) == SubSeq(iso, 9, 10) \o " " \o SubSeq(iso, 12, 16)

\* frames.map(f => f.time).filter(Boolean)
TimesOf(fs) == [i \in 1..Len(fs) |-> fs[i].time]

\* new Map(frames.map(f => [f.time, f])): the last frame of a time stays
ByTime(fs) ==
  [t \in {fs[i].time : i \in 1..Len(fs)} |->
     fs[CHOOSE i \in 1..Len(fs) :
          fs[i].time = t /\ \A j \in 1..Len(fs) : fs[j].time = t => j <= i]]

\* const key = timeline[idx]; const bundle = dataByTime.get(key);
Bundle(idx, tl, byTime) ==
  IF idx < Len(tl) /\ tl[idx + 1] \in DOMAIN byTime THEN Some(byTime[tl[idx + 1]])
  ELSE NULL

\* what the page shows
Shown == [timeLabel |-> timeLabel, polyLayer |-> polyLayer, markerLayer |-> markerLayer]

\* Full render: polygons + markers
rebuildAtIndex(idx, tl, byTime, shown) ==
  LET b == Bundle(idx, tl, byTime)
  IN  IF b = NULL THEN shown
      ELSE [timeLabel |-> formatTimeLabel(tl[idx + 1]),
            polyLayer |-> b[1].polygons,
            markerLayer |-> b[1].markers]

\* mutant of rebuildAtIndexMarkersOnly: the polygons are redrawn too
rebuildAtIndexWithPolygons(idx, tl, byTime, shown) ==
  LET b == Bundle(idx, tl, byTime)
  IN  IF b = NULL THEN shown
      ELSE [timeLabel |-> formatTimeLabel(tl[idx + 1]),
            polyLayer |-> b[1].polygons,
            markerLayer |-> b[1].markers]

\* Light render: markers only
rebuildAtIndexMarkersOnly(idx, tl, byTime, shown) ==
  LET b == Bundle(idx, tl, byTime)
  IN  IF b = NULL THEN shown
      ELSE [timeLabel |-> formatTimeLabel(tl[idx + 1]),
            polyLayer |-> shown.polyLayer,
            markerLayer |-> b[1].markers]

\* mutant of clearTimeout: the timer stays pending
keepTimeout(pending, id) == pending

\* clearTimeout(polyTimeout)
clearTimeout(pending, id) == {t \in pending : t.id # id}

\* async function main(): the payload is fetched, the slider set up and the
\* first frame drawn
client_main ==
  /\ pc = "load"
  /\ LET tl == IF Len(timeline) > 0 THEN timeline ELSE TimesOf(frames)
         byTime == ByTime(frames)
         loading == [Shown EXCEPT !.timeLabel = "Loading data..."]
         v == IF Len(tl) > 0 THEN rebuildAtIndex(0, tl, byTime, loading)
              ELSE [loading EXCEPT
                      !.timeLabel = "No data in hotspots JSON (frames empty)"]
     IN  /\ timeline' = tl
         /\ dataByTime' = byTime
         /\ timeLabel' = v.timeLabel
         /\ polyLayer' = v.polyLayer
         /\ markerLayer' = v.markerLayer
  /\ slider_value' = 0
  /\ polyTimeout' = 0
  /\ timers' = {}
  /\ pc' = "ready"
  /\ UNCHANGED <<args, calls, prop, patched, bin_w, df_total, df_win, good_ids,
                 bad_ids, shown_ids, df_scored, df_poly, frames, features, markers>>

\* slider.addEventListener("input", ...): the slider is at any index of
\* 0..slider.max
slider_input ==
  /\ pc = "ready"
  /\ polyTimeout < MaxInputs
  /\ \E idx \in 0..Max2(0, Len(timeline) - 1) :
       LET v == rebuildAtIndexMarkersOnly(idx, timeline, dataByTime, Shown)
       IN  /\ slider_value' = idx
           /\ timeLabel' = v.timeLabel
           /\ polyLayer' = v.polyLayer
           /\ markerLayer' = v.markerLayer
           /\ polyTimeout' = polyTimeout + 1
           /\ timers' = (IF polyTimeout # 0 THEN clearTimeout(timers, polyTimeout)
                         ELSE timers)
                          \cup {[id |-> polyTimeout + 1, idx |-> idx]}
  /\ UNCHANGED <<args, calls, prop, patched, dataByTime, pc, bin_w, df_total, df_win,
                 good_ids, bad_ids, shown_ids, df_scored, df_poly, frames, timeline,
                 features, markers>>

\* the callback of setTimeout(..., 250) runs
timer_fires ==
  /\ pc = "ready"
  /\ \E t \in timers :
       LET v == rebuildAtIndex(t.idx, timeline, dataByTime, Shown)
       IN  /\ timers' = timers \ {t}
           /\ timeLabel' = v.timeLabel
           /\ polyLayer' = v.polyLayer
           /\ markerLayer' = v.markerLayer
  /\ UNCHANGED <<args, calls, prop, patched, dataByTime, slider_value, polyTimeout,
                 pc, bin_w, df_total, df_win, good_ids, bad_ids, shown_ids, df_scored,
                 df_poly, frames, timeline, features, markers>>

NextClient ==
  \/ client_main
  \/ slider_input
  \/ timer_fires

\* the pack, up to its rolled-up window metrics
NextPack ==
  \/ pack_build_metrics
  \/ pack_select
  \/ pack_roll_up

Next ==
  \/ build_hotspots_json
  \/ main
  \/ build_metrics
  \/ KeepValidZones
  \/ SelectOverall
  \/ FilterLowSignal
  \/ ScoreWindows
  \/ SelectPerWindow
  \/ BuildFrames
  \/ BuildFeatures

\* the stages of build_hotspots_json alone
NextJson ==
  \/ build_hotspots_json
  \/ build_metrics
  \/ KeepValidZones
  \/ SelectOverall
  \/ FilterLowSignal
  \/ ScoreWindows
  \/ SelectPerWindow
  \/ BuildFrames

(***************************************************************************)
(* Initial states: the pipeline before its first statement, for bounded    *)
(* families of arguments and trip files.                                   *)
(***************************************************************************)
Trip(z, dow, hour, minute, pay, tip, n) ==
  [PULocationID |-> Some(z), pickup_datetime |-> <<dow, hour, minute>>,
   driver_pay |-> pay, tips |-> tip, n |-> n]

\* nothing computed yet
Fresh ==
  /\ bin_w = 0
  /\ df_total = {} /\ df_win = {} /\ df_scored = {} /\ df_poly = {}
  /\ good_ids = {} /\ bad_ids = {} /\ shown_ids = {}
  /\ frames = <<>> /\ timeline = <<>>
  /\ features = {} /\ markers = {}

\* no direct call of the score-to-visual functions
NoCalls ==
  /\ score_arg = NaN
  /\ color_hex = "" /\ rating_1_100 = 0 /\ client_hex = ""

\* the client has not loaded a payload and no HTML is being patched
Idle ==
  /\ dataByTime = <<>> /\ slider_value = 0 /\ polyTimeout = 0 /\ timers = {}
  /\ timeLabel = "" /\ polyLayer = {} /\ markerLayer = {}
  /\ prop = <<>> /\ patched = 0

InitRest ==
  /\ geo_ids = Zones
  /\ pc = "start"
  /\ Fresh
  /\ NoCalls
  /\ Idle

Defaults ==
  /\ bin_minutes = BIN_MINUTES_DEFAULT
  /\ good_n = GOOD_N_DEFAULT /\ bad_n = BAD_N_DEFAULT
  /\ win_good_n = WIN_GOOD_N_DEFAULT /\ win_bad_n = WIN_BAD_N_DEFAULT
  /\ min_trips_per_window = MIN_TRIPS_DEFAULT

\* The scoring family: one window (Monday 08:05) and the zones 1..3, each with
\* 10*u trips of one pay and one tip value; two of the three columns vary
\* freely over the zones, or all three do over the zones 1 and 2, or zone 1 is
\* alone in the window.
ScoreZones == 1..3

ScoreTrips(f, ZS) ==
  {Trip(z, 1, 8, 5, f[z][2], f[z][3], MIN_TRIPS_DEFAULT * f[z][1]) : z \in ZS}

InitScore ==
  /\ variant = "json"
  /\ Defaults
  /\ \/ \E f \in [ScoreZones -> (1..MaxUnits) \X Opt(0..MaxPay) \X {NULL}] :
          trips = ScoreTrips(f, ScoreZones)
     \/ \E f \in [ScoreZones -> (1..MaxUnits) \X {NULL} \X Opt(0..MaxTip)] :
          trips = ScoreTrips(f, ScoreZones)
     \/ \E f \in [ScoreZones -> {1} \X Opt(0..MaxPay) \X Opt(0..MaxTip)] :
          trips = ScoreTrips(f, ScoreZones)
     \/ \E f \in [1..2 -> (1..MaxUnits) \X Opt(0..MaxPay) \X Opt(0..MaxTip)] :
          trips = ScoreTrips(f, 1..2)
                    \cup {Trip(3, 1, 8, 5, NULL, NULL, MIN_TRIPS_DEFAULT)}
     \/ \E f \in [{1} -> (1..MaxUnits) \X Opt(0..MaxPay) \X Opt(0..MaxTip)] :
          trips = ScoreTrips(f, {1})
  /\ InitRest

SpecScore == InitScore /\ [][NextJson]_vars

\* The overall-selection family: zone z has u[z] trips (none if 0) in one
\* window; good_n and bad_n are any integers from -1 up.
CountTrips(u) == {Trip(z, 1, 8, 5, NULL, NULL, u[z]) : z \in {y \in Zones : u[y] > 0}}

InitSelect ==
  /\ variant = "json"
  /\ bin_minutes = BIN_MINUTES_DEFAULT
  /\ good_n \in -1..MaxSelN /\ bad_n \in -1..MaxSelN
  /\ win_good_n = WIN_GOOD_N_DEFAULT /\ win_bad_n = WIN_BAD_N_DEFAULT
  /\ min_trips_per_window = 1
  /\ \E u \in [Zones -> 0..MaxUnits] : trips = CountTrips(u)
  /\ InitRest

SpecSelect == InitSelect /\ [][NextJson]_vars

\* The per-window selection family: as above, with the window cut-offs varied.
InitRank ==
  /\ variant = "json"
  /\ bin_minutes = BIN_MINUTES_DEFAULT
  /\ good_n = GOOD_N_DEFAULT /\ bad_n = BAD_N_DEFAULT
  /\ win_good_n \in 0..MaxWinN /\ win_bad_n \in 0..MaxWinN
  /\ min_trips_per_window = 1
  /\ \E u \in [Zones -> 0..MaxUnits] : trips = CountTrips(u)
  /\ InitRest

SpecRank == InitRank /\ [][NextJson]_vars

\* The binning family: one trip at any minute of a Monday, any width from 1 up.
InitBin ==
  /\ variant = "json"
  /\ bin_minutes \in (1..MaxBinMinutes) \cup {BIN_MINUTES_DEFAULT}
  /\ good_n = GOOD_N_DEFAULT /\ bad_n = BAD_N_DEFAULT
  /\ win_good_n = WIN_GOOD_N_DEFAULT /\ win_bad_n = WIN_BAD_N_DEFAULT
  /\ min_trips_per_window = 1
  /\ \E hour \in 0..23, minute \in 0..59 :
       trips = {Trip(1, 1, hour, minute, NULL, NULL, 1)}
  /\ InitRest

SpecBin == InitBin /\ [][NextJson]_vars

\* The week family: both entry points, a bin width of any sign, and two trips
\* on any days of the week at the start, inside and at the end of a day.
BinArgs == {-BIN_MINUTES_DEFAULT, -1, 0, 1, BIN_MINUTES_DEFAULT}

DayTimes == {<<0, 0>>, <<8, 5>>, <<23, 59>>}

InitWeek ==
  /\ variant \in {"json", "cli"}
  /\ bin_minutes \in BinArgs
  /\ good_n = GOOD_N_DEFAULT /\ bad_n = BAD_N_DEFAULT
  /\ win_good_n = WIN_GOOD_N_DEFAULT /\ win_bad_n = WIN_BAD_N_DEFAULT
  /\ min_trips_per_window = 1
  /\ \E d1, d2 \in 0..6, t1, t2 \in DayTimes :
       trips = {Trip(1, d1, t1[1], t1[2], NULL, NULL, 1),
                Trip(2, d2, t2[1], t2[2], NULL, NULL, 1)}
  /\ InitRest

Spec == InitWeek /\ [][Next]_vars

\* The min-support family: two zones in two windows (Monday and Tuesday 08:05),
\* any number of trips per zone and window, any threshold up to one more.
SupportZones == 1..2

SupportDays == 1..2

SupportTrips(u) ==
  {Trip(c[1], c[2], 8, 5, NULL, NULL, u[c]) :
     c \in {x \in SupportZones \X SupportDays : u[x] > 0}}

InitSupport ==
  /\ variant = "json"
  /\ bin_minutes = BIN_MINUTES_DEFAULT
  /\ good_n = GOOD_N_DEFAULT /\ bad_n = BAD_N_DEFAULT
  /\ win_good_n = WIN_GOOD_N_DEFAULT /\ win_bad_n = WIN_BAD_N_DEFAULT
  /\ min_trips_per_window \in 1..(MaxUnits + 1)
  /\ \E u \in [SupportZones \X SupportDays -> 0..MaxUnits] : trips = SupportTrips(u)
  /\ InitRest

SpecSupport == InitSupport /\ [][NextJson]_vars

\* The geometry family: both entry points, a shapefile with any subset of the
\* zones, and every zone with trips in one window.
InitGeo ==
  /\ variant \in {"json", "cli"}
  /\ Defaults
  /\ geo_ids \in SUBSET Zones
  /\ \E u \in [Zones -> 1..MaxUnits] :
       trips = {Trip(z, 1, 8, 5, NULL, NULL, MIN_TRIPS_DEFAULT * u[z]) : z \in Zones}
  /\ pc = "start"
  /\ Fresh
  /\ NoCalls
  /\ Idle

SpecGeo == InitGeo /\ [][Next]_vars

\* The defective-input family: two sound trips of zone 1 on Monday 08:05 and
\* up to two more records, each with or without a zone id, a pickup time, a
\* pay and a tip.
RecordPool ==
  {[PULocationID |-> z, pickup_datetime |-> ts, driver_pay |-> pay, tips |-> tip,
    n |-> 1] :
     z \in Opt(1..2), ts \in {NULL, <<1, 8, 5>>},
     pay \in {NULL, Some(0), Some(MaxPay)}, tip \in {NULL, Some(MaxTip)}}

InitNull ==
  /\ variant = "json"
  /\ bin_minutes = BIN_MINUTES_DEFAULT
  /\ good_n = GOOD_N_DEFAULT /\ bad_n = BAD_N_DEFAULT
  /\ win_good_n = WIN_GOOD_N_DEFAULT /\ win_bad_n = WIN_BAD_N_DEFAULT
  /\ min_trips_per_window = 1
  /\ \E a, b \in RecordPool :
       trips = {Trip(1, 1, 8, 5, Some(MaxPay), Some(MaxTip), 2), a, b}
  /\ InitRest

SpecNull == InitNull /\ [][NextJson]_vars

\* The two-window family: two zones on Monday and on Tuesday 08:05, each with
\* 10 or 20 trips without pay, of pay 0 or of the highest pay.
WindowCells == (1..2) \X (1..2)

InitWindows ==
  /\ variant = "json"
  /\ Defaults
  /\ \E f \in [WindowCells -> (1..2) \X {NULL, Some(0), Some(MaxPay)}] :
       trips = {Trip(c[1], c[2], 8, 5, f[c][2], NULL, MIN_TRIPS_DEFAULT * f[c][1]) :
                  c \in WindowCells}
  /\ InitRest

SpecWindows == InitWindows /\ [][NextJson]_vars

\* The filter-order family: every zone with 1..MaxUnits trips in one window, a
\* threshold of 1 or 2 trips, and good_n, bad_n from 0 up.
InitOrder ==
  /\ variant = "json"
  /\ bin_minutes = BIN_MINUTES_DEFAULT
  /\ good_n \in 0..MaxSelN /\ bad_n \in 0..MaxSelN
  /\ win_good_n = WIN_GOOD_N_DEFAULT /\ win_bad_n = WIN_BAD_N_DEFAULT
  /\ min_trips_per_window \in 1..2
  /\ \E u \in [Zones -> 1..MaxUnits] : trips = CountTrips(u)
  /\ InitRest

SpecOrder == InitOrder /\ [][NextJson]_vars

\* The pack family: one trip at any minute of a day under the bin widths
\* 0..MaxBinMinutes and the default, or two groups of 1..MaxUnits records of one
\* zone and day at two minutes of the hour 8 under the default width.
PackMinutes == {0, 5, 21}

InitPack ==
  /\ variant = "pack"
  /\ good_n = GOOD_N_DEFAULT /\ bad_n = BAD_N_DEFAULT
  /\ win_good_n = WIN_GOOD_N_DEFAULT /\ win_bad_n = WIN_BAD_N_DEFAULT
  /\ min_trips_per_window = MIN_TRIPS_DEFAULT
  /\ \/ /\ bin_minutes \in (0..MaxBinMinutes) \cup {BIN_MINUTES_DEFAULT}
        /\ \E hour \in 0..23, minute \in 0..59 :
             trips = {Trip(1, 1, hour, minute, NULL, NULL, 1)}
     \/ /\ bin_minutes = BIN_MINUTES_DEFAULT
        /\ \E m1, m2 \in PackMinutes, n1, n2 \in 1..MaxUnits,
              p1, p2 \in Opt(0..MaxPay), q \in Opt(0..MaxTip) :
             trips = {Trip(1, 1, 8, m1, p1, NULL, n1), Trip(1, 1, 8, m2, p2, q, n2)}
  /\ InitRest

SpecPack == InitPack /\ [][NextPack]_vars

\* The counting family: both entry points; zone 1 with 1..MaxUnits records on
\* Monday 08:05 and as many on Monday or Tuesday at 08:05, 08:06 or 08:25, and
\* one more record with or without a zone id and a pickup time.
CountTimes == {<<1, 8, 5>>, <<1, 8, 6>>, <<1, 8, 25>>, <<2, 8, 5>>}

InitCount ==
  /\ variant \in {"json", "cli"}
  /\ bin_minutes = BIN_MINUTES_DEFAULT
  /\ good_n = GOOD_N_DEFAULT /\ bad_n = BAD_N_DEFAULT
  /\ win_good_n = WIN_GOOD_N_DEFAULT /\ win_bad_n = WIN_BAD_N_DEFAULT
  /\ min_trips_per_window = 1
  /\ \E n1, n2 \in 1..MaxUnits, ts \in CountTimes,
        z \in Opt(1..2), tz \in {NULL} \cup CountTimes :
       trips = {Trip(1, 1, 8, 5, NULL, NULL, n1),
                Trip(1, ts[1], ts[2], ts[3], Some(0), NULL, n2),
                [PULocationID |-> z, pickup_datetime |-> tz, driver_pay |-> NULL,
                 tips |-> NULL, n |-> 1]}
  /\ InitRest

SpecCount == InitCount /\ [][Next]_vars

\* The patch family: a property that is no number, NaN, or a multiple of
\* 2^-ValueBits from -1 to MaxValue, in an HTML not patched yet.
ValueGrid == {Norm(k, 2 ^ ValueBits) : k \in -(2 ^ ValueBits)..(MaxValue * 2 ^ ValueBits)}

InitPatch ==
  /\ variant = "json"
  /\ Defaults
  /\ trips = {}
  /\ geo_ids = Zones
  /\ pc = "patch"
  /\ Fresh
  /\ NoCalls
  /\ dataByTime = <<>> /\ slider_value = 0 /\ polyTimeout = 0 /\ timers = {}
  /\ timeLabel = "" /\ polyLayer = {} /\ markerLayer = {}
  /\ prop \in {NULL, Some(NaN)} \cup {Some(x) : x \in ValueGrid}
  /\ patched = 0

SpecPatch == InitPatch /\ [][patch_main]_vars

\* The client family: a payload of up to MaxFrames frames, the i-th with the
\* polygons of the zones 1..i and the marker of zone i at any of the first
\* times of the week, and a timeline that is empty or the first times of the
\* week, up to one more than there can be frames.
ClientTime(i) == IsoFormat(WeekTs(0, BIN_MINUTES_DEFAULT * (i - 1)))

ClientFrame(t, i) ==
  [time |-> t,
   polygons |-> {[LocationID |-> z] : z \in 1..i},
   markers |-> {[zone |-> i]}]

InitClient ==
  /\ variant = "json"
  /\ Defaults
  /\ trips = {}
  /\ geo_ids = Zones
  /\ pc = "load"
  /\ bin_w = 0
  /\ df_total = {} /\ df_win = {} /\ df_scored = {} /\ df_poly = {}
  /\ good_ids = {} /\ bad_ids = {} /\ shown_ids = {}
  /\ features = {} /\ markers = {}
  /\ \E n \in 0..MaxFrames :
       \E tm \in [1..n -> 1..n] :
         frames = [i \in 1..n |-> ClientFrame(ClientTime(tm[i]), i)]
  /\ \E n \in 0..(MaxFrames + 1) : timeline = [i \in 1..n |-> ClientTime(i)]
  /\ NoCalls
  /\ dataByTime = <<>> /\ slider_value = 0 /\ polyTimeout = 0 /\ timers = {}
  /\ timeLabel = "" /\ polyLayer = {} /\ markerLayer = {}
  /\ prop = NULL /\ patched = 0

SpecClient == InitClient /\ [][NextClient]_vars

\* the event loop runs a timer that is due
SpecClientFair == SpecClient /\ WF_vars(timer_fires)

\* The score-to-visual family: one call on a score k / 2^ScoreBits between
\* -1/8 and 9/8, or on NaN.  On these scores every float64 operation of the
\* functions is exact, so the rationals give the floats' results.
ScoreGrid ==
  {Norm(k, 2 ^ ScoreBits) :
     k \in (-((2 ^ ScoreBits) \div 8))..((2 ^ ScoreBits) + ((2 ^ ScoreBits) \div 8))}

InitColor ==
  /\ variant = "json"
  /\ Defaults
  /\ trips = {}
  /\ geo_ids = Zones
  /\ pc = "call"
  /\ Fresh
  /\ score_arg \in ScoreGrid \cup {NaN}
  /\ color_hex = "" /\ rating_1_100 = 0 /\ client_hex = ""
  /\ Idle

SpecColor == InitColor /\ [][ScoreToVisual]_vars

(***************************************************************************)
(* Claims.                                                                 *)
(***************************************************************************)
Scored == pc \in {"rank", "frames", "features", "done"}
Ranked2 == pc \in {"frames", "features", "done"}
Selected == pc \in {"filter", "score", "rank", "frames", "features", "done"}
Binned == pc \in {"valid", "select", "filter", "score", "rank", "frames", "features", "done"}

\* float comparisons: false when an operand is NaN
FLe(x, y) == ~IsNaN(x) /\ ~IsNaN(y) /\ RLe(x, y)
FLt(x, y) == ~IsNaN(x) /\ ~IsNaN(y) /\ RLt(x, y)

\* C1: every scored row has 0 <= score01 <= 1 and 1 <= rating <= 100, and a
\* higher score01 never yields a lower rating.
C1_ScoreRatingRange ==
  Scored =>
    \A r \in df_scored :
      /\ FLe(Rat(0, 1), r.score01) /\ FLe(r.score01, Rat(1, 1))
      /\ 1 <= r.rating /\ r.rating <= 100
      /\ \A q \in df_scored : FLt(q.score01, r.score01) => q.rating <= r.rating

\* C2: every row that passes the min-support filter gets a defined (non-NaN)
\* vol_n, pay_n, tip_n and score01, also a zone whose mean pay or tip is null
\* in a window where another zone has a value.
C2_NoNaNDownstream ==
  Scored =>
    \A r \in df_scored :
      ~IsNaN(r.vol_n) /\ ~IsNaN(r.pay_n) /\ ~IsNaN(r.tip_n) /\ ~IsNaN(r.score01)

C3Scenario ==
  trips = {Trip(1, 1, 8, 5, NULL, NULL, 10), Trip(2, 1, 8, 5, NULL, NULL, 20),
           Trip(3, 1, 8, 5, NULL, NULL, 30)}

C3Row(z, vol, score, rating) ==
  \E r \in df_scored :
    /\ r.PULocationID = z /\ r.vol_n = vol /\ r.pay_n = Rat(0, 1)
    /\ r.tip_n = Rat(0, 1) /\ r.score01 = score /\ r.rating = rating

\* C3 as stated: pickups 10, 20, 30 without pay/tip data give vol_n 0, 0.5, 1,
\* pay_n = tip_n = 0, score01 0, 0.30, 0.60 and ratings 1, 30, 60.
C3_Original ==
  (C3Scenario /\ Scored) =>
    /\ C3Row(1, Rat(0, 1), Rat(0, 1), 1)
    /\ C3Row(2, Rat(1, 2), Rat(3, 10), 30)
    /\ C3Row(3, Rat(1, 1), Rat(3, 5), 60)

\* C3 amended: the same scenario gives the ratings 1, 31, 60
\* (round(1 + 99 * 0.30) = round(30.7) = 31).
C3_Ratings_1_31_60 ==
  (C3Scenario /\ Scored) =>
    /\ Cardinality(df_scored) = 3
    /\ C3Row(1, Rat(0, 1), Rat(0, 1), 1)
    /\ C3Row(2, Rat(1, 2), Rat(3, 10), 31)
    /\ C3Row(3, Rat(1, 1), Rat(3, 5), 60)

C3_Witness == C3Scenario /\ pc = "done" /\ Cardinality(df_scored) = 3

WindowRows(df, k) == {r \in df : KeyOf(r) = k}

RowIds(df) == {<<r.PULocationID, r.dow_m, r.bin_start_min>> : r \in df}

\* C4: in a window with fewer scored zones than win_good_n + win_bad_n every
\* scored zone is retained in df_poly, whatever the scores (ties included).
C4_SmallWindowAllKept ==
  Ranked2 =>
    \A r \in df_scored :
      Cardinality(WindowRows(df_scored, KeyOf(r))) < win_good_n + win_bad_n
        => <<r.PULocationID, r.dow_m, r.bin_start_min>> \in RowIds(df_poly)

\* C5: per window at most win_good_n + win_bad_n rows are retained, and no
\* frame holds more polygons than that.
C5_WindowBound ==
  /\ Ranked2 =>
       \A r \in df_poly :
         Cardinality(WindowRows(df_poly, KeyOf(r))) <= win_good_n + win_bad_n
  /\ \A i \in 1..Len(frames) :
       Cardinality(frames[i].polygons) <= win_good_n + win_bad_n

C5_Witness ==
  /\ pc = "done" /\ win_good_n = 1 /\ win_bad_n = 1
  /\ Cardinality(df_scored) = 3 /\ Cardinality(df_poly) = 2
  /\ Len(frames) = 1 /\ Cardinality(frames[1].polygons) = 2

\* C6 as stated: good_ids and bad_ids are disjoint, |good_ids| <= good_n and
\* |bad_ids| <= bad_n for every integer good_n, bad_n, and shown_ids is their
\* union.
C6_Original ==
  Selected =>
    /\ good_ids \cap bad_ids = {}
    /\ Cardinality(good_ids) <= good_n
    /\ Cardinality(bad_ids) <= bad_n
    /\ shown_ids = good_ids \cup bad_ids

\* C6 amended: good_ids and bad_ids are disjoint and shown_ids is their union
\* for every integer good_n, bad_n; |good_ids| <= good_n when good_n >= 0 and
\* |bad_ids| <= bad_n when bad_n >= 0 (a negative n makes head(n) drop the
\* last -n rows, so the cardinality bound cannot hold).
C6_DisjointAndBounded ==
  Selected =>
    /\ good_ids \cap bad_ids = {}
    /\ good_n >= 0 => Cardinality(good_ids) <= good_n
    /\ bad_n >= 0 => Cardinality(bad_ids) <= bad_n
    /\ good_n < 0 => Cardinality(good_ids) = Max2(Cardinality(df_total) + good_n, 0)
    /\ shown_ids = good_ids \cup bad_ids

C6_Witness ==
  /\ pc = "filter" /\ good_n = 1 /\ bad_n = 1 /\ Cardinality(df_total) = 3
  /\ Cardinality(good_ids) = 1 /\ Cardinality(bad_ids) = 1
  /\ Cardinality(shown_ids) = 2

TotalOf(z) == (CHOOSE r \in df_total : r.PULocationID = z).pickups_total

TotalIds == {r.PULocationID : r \in df_total}

\* C7: every zone of good_ids has at least the lifetime pickups of every zone
\* outside good_ids, every zone of bad_ids at most those of every zone in
\* neither set, and shown_ids is every observed zone once good_n + bad_n
\* reaches their number.
C7_SelectionByVolume ==
  Selected =>
    /\ good_ids \subseteq TotalIds /\ bad_ids \subseteq TotalIds
    /\ \A g \in good_ids : \A z \in TotalIds \ good_ids : TotalOf(g) >= TotalOf(z)
    /\ \A b \in bad_ids : \A z \in TotalIds \ shown_ids : TotalOf(b) <= TotalOf(z)
    /\ good_n + bad_n >= Cardinality(df_total) => shown_ids = TotalIds

C7_Witness ==
  /\ pc = "filter" /\ Cardinality(df_total) = 3
  /\ Cardinality(good_ids) = 1 /\ Cardinality(bad_ids) = 1
  /\ \E g \in good_ids, b \in bad_ids, z \in TotalIds \ shown_ids :
       TotalOf(g) > TotalOf(z) /\ TotalOf(z) > TotalOf(b)

MinuteOfDay(t) == t.pickup_datetime[2] * 60 + t.pickup_datetime[3]

\* the df_win rows of the window trip t falls in
RowsOf(t, df) ==
  {r \in df : /\ r.PULocationID = TripZone(t) /\ r.dow_i = TripDow(t)
              /\ r.bin_start_min = TripBin(t, bin_w)}

\* C8 as stated: for bin_minutes > 0 the bin start is floor(m / bin_minutes) *
\* bin_minutes for the minute of day m, a multiple of bin_minutes in
\* [0, 1440 - bin_minutes].
C8_Original ==
  (Binned /\ bin_w > 0) =>
    \A t \in Base(trips) : \A r \in df_win :
      (r.PULocationID = TripZone(t) /\ r.dow_i = TripDow(t)) =>
        /\ r.bin_start_min % bin_w = 0
        /\ r.bin_start_min <= MinuteOfDay(t)
        /\ MinuteOfDay(t) < r.bin_start_min + bin_w
        /\ 0 <= r.bin_start_min
        /\ r.bin_start_min <= MINUTES_PER_DAY - bin_w

\* C8 amended: the bin start is the multiple b of bin_minutes with
\* b <= m < b + bin_minutes, so it lies in [0, 1439]; it is at most
\* 1440 - bin_minutes when bin_minutes divides 1440.
C8_BinStartFloor ==
  (Binned /\ bin_w > 0) =>
    \A t \in Base(trips) : \A r \in df_win :
      (r.PULocationID = TripZone(t) /\ r.dow_i = TripDow(t)) =>
        /\ r.bin_start_min % bin_w = 0
        /\ r.bin_start_min <= MinuteOfDay(t)
        /\ MinuteOfDay(t) < r.bin_start_min + bin_w
        /\ 0 <= r.bin_start_min
        /\ r.bin_start_min <= MINUTES_PER_DAY - 1
        /\ MINUTES_PER_DAY % bin_w = 0 => r.bin_start_min <= MINUTES_PER_DAY - bin_w

C8_Witness ==
  /\ pc = "done" /\ bin_w = 7
  /\ \E t \in trips : MinuteOfDay(t) = 1439
  /\ \E r \in df_win : r.bin_start_min = 1435

\* C9: a bin width <= 0 is coerced to the default 20 before any binning; the
\* pipeline never bins with a zero or negative width.
C9_NonPositiveCoercedToDefault ==
  pc # "start" =>
    /\ bin_w > 0
    /\ bin_w = (IF bin_minutes <= 0 THEN BIN_MINUTES_DEFAULT ELSE bin_minutes)

TsLt(a, b) ==
  LET ka == <<a.year, a.month, a.day, a.hour, a.minute, a.second>>
      kb == <<b.year, b.month, b.day, b.hour, b.minute, b.second>>
  IN  \E i \in 1..6 : ka[i] < kb[i] /\ \A j \in 1..(i - 1) : ka[j] = kb[j]

\* day of the week of a date of January 2025, 0 = Sunday .. 6 = Saturday
\* (1 January 2025 is a Wednesday)
SrcWeekday(ts) == (ts.day + 2) % 7

\* C10: every surviving WindowKey maps to Monday 2025-01-06 00:00:00 + dow_m
\* days + bin_start_min minutes, injectively and in key order, and the
\* timestamp falls on the weekday of the trips of the window.
C10_WeekTimestamps ==
  Ranked2 =>
    /\ \A r \in df_poly :
         LET ts == WeekTs(r.dow_m, r.bin_start_min)
         IN  /\ ts.year = 2025 /\ ts.month = 1 /\ ts.second = 0
             /\ ts.hour \in 0..23 /\ ts.minute \in 0..59
             /\ (ts.day - 6) * 1440 + ts.hour * 60 + ts.minute
                  = r.dow_m * 1440 + r.bin_start_min
             /\ SrcWeekday(ts) = r.dow_i
    /\ \A t \in Base(trips) : \A r \in RowsOf(t, df_poly) :
         SrcWeekday(WeekTs(r.dow_m, r.bin_start_min)) = TripDow(t)
    /\ \A r, q \in df_poly :
         /\ KeyOf(r) # KeyOf(q) =>
              IsoFormat(WeekTs(r.dow_m, r.bin_start_min))
                # IsoFormat(WeekTs(q.dow_m, q.bin_start_min))
         /\ KeyLt(KeyOf(r), KeyOf(q)) <=>
              TsLt(WeekTs(r.dow_m, r.bin_start_min), WeekTs(q.dow_m, q.bin_start_min))
    /\ (pc = "done" /\ variant = "json") =>
         {frames[i].time : i \in 1..Len(frames)}
           = {IsoFormat(WeekTs(r.dow_m, r.bin_start_min)) : r \in df_poly}

JsonDone == pc = "done" /\ variant = "json"

\* the timestamp a time string of the payload stands for
TimeOf(iso) ==
  CHOOSE ts \in {WeekTs(r.dow_m, r.bin_start_min) : r \in df_poly} :
    IsoFormat(ts) = iso

\* C11: in the payload of build_hotspots_json the timeline is ascending without
\* duplicates and timeline[i] = frames[i].time for every i, so it holds exactly
\* the distinct time values of the frames.
C11_TimelineSortedDistinct ==
  JsonDone =>
    /\ Len(timeline) = Len(frames)
    /\ \A i \in 1..Len(frames) : timeline[i] = frames[i].time
    /\ \A i, j \in 1..Len(timeline) :
         i < j => TsLt(TimeOf(timeline[i]), TimeOf(timeline[j]))
    /\ Cardinality({frames[i].time : i \in 1..Len(frames)}) = Len(timeline)

Filtered == pc \in {"score", "rank", "frames", "features", "done"}

\* the time string of the frame of window key k
KeyTime(k) == IsoFormat(WeekTs(k[1], k[2]))

\* the window keys of the trips whose every zone is below the threshold
Unsupported ==
  LET w == SqlWin(trips, bin_w)
  IN  {k \in {KeyOf(r) : r \in w} :
         \A r \in w : KeyOf(r) = k => r.pickups < min_trips_per_window}

\* C12: a window metric with pickups < min_trips_per_window reaches neither
\* scoring nor ranking nor the output; a window whose every zone is below the
\* threshold has no frame and no timeline entry; every frame is that of a
\* window key with a surviving metric.
C12_MinSupport ==
  /\ Filtered => \A r \in df_win : r.pickups >= min_trips_per_window
  /\ Scored => \A r \in df_scored : r.pickups >= min_trips_per_window
  /\ Ranked2 => \A r \in df_poly : r.pickups >= min_trips_per_window
  /\ JsonDone =>
       /\ \A i \in 1..Len(frames) :
            /\ \A f \in frames[i].polygons : f.pickups >= min_trips_per_window
            /\ \A m \in frames[i].markers : m.pickups >= min_trips_per_window
            /\ \E r \in df_win :
                 /\ KeyTime(KeyOf(r)) = frames[i].time
                 /\ r.pickups >= min_trips_per_window
       /\ \A k \in Unsupported :
            /\ \A i \in 1..Len(frames) : frames[i].time # KeyTime(k)
            /\ \A i \in 1..Len(timeline) : timeline[i] # KeyTime(k)

C12_Witness ==
  /\ JsonDone /\ min_trips_per_window = 3
  /\ Cardinality(Unsupported) = 1
  /\ Len(frames) = 1 /\ Len(timeline) = 1
  /\ \E t \in trips : t.n = 2
  /\ Cardinality(frames[1].polygons) = 1

\* C13: in every polygon record of build_hotspots_json the border is solid
\* #00b050 iff the zone is in good_ids and dashed #e60000 iff it is in bad_ids,
\* whatever its rank in the window, and the fill is the colour of its window
\* score.
C13_BorderByOverallTag ==
  JsonDone =>
    \A i \in 1..Len(frames) : \A f \in frames[i].polygons :
      /\ f.LocationID \in good_ids
           <=> (f.style.color = "#00b050" /\ f.style.dashArray = NULL)
      /\ f.LocationID \in bad_ids
           <=> (f.style.color = "#e60000" /\ f.style.dashArray # NULL)
      /\ \E r \in df_scored :
           /\ r.PULocationID = f.LocationID /\ KeyTime(KeyOf(r)) = f.time
           /\ f.style.fillColor = score_to_color_hex(r.score01)

\* C14: every frame of build_hotspots_json has exactly one marker per zone of
\* shown_ids with a centroid, tagged GOOD iff the zone is in good_ids and BAD
\* iff it is in bad_ids; the per-window selection removes and retags none.
C14_MarkersPerShownZone ==
  JsonDone =>
    \A i \in 1..Len(frames) :
      /\ {m.zone : m \in frames[i].markers} = shown_ids \cap geo_ids
      /\ Cardinality(frames[i].markers) = Cardinality(shown_ids \cap geo_ids)
      /\ \A m \in frames[i].markers :
           /\ m.tag = "GOOD" <=> m.zone \in good_ids
           /\ m.tag = "BAD" <=> m.zone \in bad_ids

\* the scored window metrics of the same call with the shapefile geo, before
\* the restriction to shown_ids
ScoredWith(geo) ==
  LET w == SqlWin(trips, bin_w)
      v == IF variant = "json" THEN {r \in w : r.PULocationID \in geo} ELSE w
  IN  add_window_scores(MinSupport(v, min_trips_per_window))

\* C15: a zone without geometry has no polygon and no marker in any output,
\* and the normalised components and score01 of every other zone are those of
\* the same call with that zone's geometry present.
C15_MissingGeometryNoInfluence ==
  /\ pc = "done" =>
       \A z \in Zones \ geo_ids :
         /\ \A i \in 1..Len(frames) :
              /\ \A f \in frames[i].polygons : f.LocationID # z
              /\ \A m \in frames[i].markers : m.zone # z
         /\ \A f \in features : f.LocationID # z
         /\ \A m \in markers : m.zone # z
  /\ Scored =>
       \A z \in Zones \ geo_ids : \A r \in df_scored :
         r.PULocationID # z =>
           \E q \in ScoredWith(geo_ids \cup {z}) :
             /\ q.PULocationID = r.PULocationID /\ KeyOf(q) = KeyOf(r)
             /\ q.vol_n = r.vol_n /\ q.pay_n = r.pay_n /\ q.tip_n = r.tip_n
             /\ q.score01 = r.score01

\* the rows that add_window_scores normalises together with row r
GroupOf(r) == {q \in df_win : SameWindow(r, q)}

\* C16: in a window where every zone has the same value of a metric (a single
\* zone included) or where every value of the metric is null, the metric's
\* normalised component is exactly 0 for every zone of the window.
C16_DegenerateIsZero ==
  Scored =>
    \A r \in df_scored :
      /\ (\A q \in GroupOf(r) : q.pickups = r.pickups) => r.vol_n = Rat(0, 1)
      /\ (\A q \in GroupOf(r) : q.avg_driver_pay = r.avg_driver_pay)
           => r.pay_n = Rat(0, 1)
      /\ (\A q \in GroupOf(r) : q.avg_tips = r.avg_tips) => r.tip_n = Rat(0, 1)

C16_Witness ==
  /\ pc = "done" /\ Cardinality(df_scored) = 3
  /\ \A r \in df_scored :
       /\ r.avg_driver_pay = Rat(1, 1) /\ r.pay_n = Rat(0, 1)
       /\ IsNaN(r.avg_tips) /\ r.tip_n = Rat(0, 1)
  /\ \E r \in df_scored : r.vol_n = Rat(1, 1)

Returned == pc = "returned"

InUnit(x) == ~IsNaN(x) /\ RLe(Rat(0, 1), x) /\ RLe(x, Rat(1, 1))

\* the piecewise-linear value lo -> mid -> hi of a channel at the score s
Gradient(lo, mid, hi, s) ==
  IF RLe(s, Rat(1, 2)) THEN Norm(lo * s.d + (mid - lo) * 2 * s.n, s.d)
  ELSE Norm(mid * s.d + (hi - mid) * (2 * s.n - s.d), s.d)

\* the integers of 0..255 nearest to x (two of them at a half)
Nearest(x) ==
  {c \in 0..255 : 2 * c * x.d - 2 * x.n <= x.d /\ 2 * x.n - 2 * c * x.d <= x.d}

RoundedColors(s) ==
  {"#" \o Hex02(r) \o Hex02(g) \o Hex02(b) :
     r \in Nearest(Gradient(230, 255, 0, s)),
     g \in Nearest(Gradient(0, 215, 176, s)),
     b \in Nearest(Gradient(0, 0, 80, s))}

\* C17: for every score in [0,1] each channel of score_to_color_hex is the
\* piecewise-linear value (R 230->255->0, G 0->215->176, B 0->0->80) rounded
\* to the nearest integer, and the client's scoreToColorHex returns the same
\* string.
C17_ChannelsRoundedSameAsClient ==
  (Returned /\ InUnit(score_arg)) =>
    /\ color_hex \in RoundedColors(score_arg)
    /\ color_hex = client_hex

LowerHex == {"0", "1", "2", "3", "4", "5", "6", "7", "8", "9",
             "a", "b", "c", "d", "e", "f"}

\* the pattern #[0-9a-f]{6}
IsHexColor(c) ==
  /\ Len(c) = 7
  /\ SubSeq(c, 1, 1) = "#"
  /\ \A i \in 2..7 : SubSeq(c, i, i) \in LowerHex

\* C18: score_to_color_hex always returns # and six lowercase hex digits, and
\* returns #e60000 at score 0, #ffd700 at score 0.5 and #00b050 at score 1.
C18_ColorFormatAndEndpoints ==
  Returned =>
    /\ IsHexColor(color_hex)
    /\ score_arg = Rat(0, 1) => color_hex = "#e60000"
    /\ score_arg = Rat(1, 2) => color_hex = "#ffd700"
    /\ score_arg = Rat(1, 1) => color_hex = "#00b050"

C18_Witness == Returned /\ score_arg = Rat(1, 2) /\ color_hex = "#ffd700"

\* C19: score_to_rating_1_100 and score_to_color_hex return for every numeric
\* input (NaN included); a score below 0 gives the results of 0 (rating 1,
\* #e60000), a score above 1 those of 1 (rating 100, #00b050), and the
\* results are those of the clamped score.
C19_ClampedTotal ==
  /\ pc \in {"call", "returned"}
  /\ Returned =>
       /\ rating_1_100 \in 1..100 /\ IsHexColor(color_hex)
       /\ rating_1_100 = score_to_rating_1_100(Clamp01(score_arg))
       /\ color_hex = score_to_color_hex(Clamp01(score_arg))
       /\ (~IsNaN(score_arg) /\ RLt(score_arg, Rat(0, 1))) =>
            /\ rating_1_100 = 1 /\ color_hex = "#e60000"
            /\ rating_1_100 = score_to_rating_1_100(Rat(0, 1))
            /\ color_hex = score_to_color_hex(Rat(0, 1))
       /\ (~IsNaN(score_arg) /\ RLt(Rat(1, 1), score_arg)) =>
            /\ rating_1_100 = 100 /\ color_hex = "#00b050"
            /\ rating_1_100 = score_to_rating_1_100(Rat(1, 1))
            /\ color_hex = score_to_color_hex(Rat(1, 1))

C19_Witness ==
  /\ Returned /\ score_arg = Rat(-1, 8)
  /\ rating_1_100 = 1 /\ color_hex = "#e60000"

\* the records of zone z with a pickup time
ZoneRecords(z) ==
  {t \in trips : t.PULocationID = Some(z) /\ t.pickup_datetime # NULL}

\* the records counted in the window metric r
WindowRecords(r) ==
  {t \in ZoneRecords(r.PULocationID) :
     t.pickup_datetime[1] = r.dow_i /\ TripBin(t, bin_w) = r.bin_start_min}

\* x is the mean of column col over the records of S that have a value, NaN
\* if none has
IsMeanOf(x, S, col) ==
  LET nn == {t \in S : t[col] # NULL}
  IN  IF nn = {} THEN IsNaN(x)
      ELSE /\ ~IsNaN(x)
           /\ x.n * Count(nn) = x.d * SumPairs({<<t, t[col][1] * t.n>> : t \in nn})

\* C20: the run never aborts on a defective record; a record without zone id
\* or pickup time is counted in no zone total and no window metric; a record
\* without pay (tip) counts as a pickup and is left out of the mean, which is
\* null, not 0, when the window has no pay (tip) value.
C20_DefectsAbsentNotZero ==
  /\ pc # "failed"
  /\ Binned =>
       /\ \A r \in df_total :
            r.pickups_total = Count(ZoneRecords(r.PULocationID))
       /\ \A z \in Zones :
            ZoneRecords(z) # {} => \E r \in df_total : r.PULocationID = z
       /\ SumPairs({<<r, r.pickups_total>> : r \in df_total})
            = Count({t \in trips : t.PULocationID # NULL /\ t.pickup_datetime # NULL})
       /\ \A r \in df_win :
            /\ r.pickups = Count(WindowRecords(r))
            /\ IsMeanOf(r.avg_driver_pay, WindowRecords(r), "driver_pay")
            /\ IsMeanOf(r.avg_tips, WindowRecords(r), "tips")
       /\ SumPairs({<<r, r.pickups>> : r \in df_win})
            = Count({t \in trips : t.PULocationID # NULL /\ t.pickup_datetime # NULL})

C20_Witness ==
  /\ pc = "done"
  /\ \E t \in trips : t.PULocationID = NULL
  /\ \E t \in trips :
       /\ t.PULocationID = Some(1) /\ t.pickup_datetime # NULL
       /\ t.driver_pay = NULL
  /\ \E r \in df_win :
       /\ r.PULocationID = 1 /\ r.pickups = 3
       /\ r.avg_driver_pay = Rat(MaxPay, 1)
  /\ \A r \in df_total : r.PULocationID = 1 /\ r.pickups_total = 3

\* C21: a call on an input without trip records ends in a failure, at the
\* latest when the metrics are built, and writes no output; an output with an
\* empty frames and timeline list comes only from an input that has records.
C21_EmptyInputFails ==
  /\ (trips = {} /\ pc \notin {"start", "metrics"}) => pc = "failed"
  /\ (pc = "done" /\ frames = <<>> /\ timeline = <<>>) => trips # {}

\* C22: the normalised components, score01, rating and colour of every row of
\* a window are those that add_window_scores gives on the metrics of that
\* window alone, whatever the metrics of the other windows are.
C22_WindowIndependence ==
  Scored =>
    \A r \in df_scored :
      \E q \in add_window_scores(WindowRows(df_win, KeyOf(r))) :
        /\ q.PULocationID = r.PULocationID /\ KeyOf(q) = KeyOf(r)
        /\ q.vol_n = r.vol_n /\ q.pay_n = r.pay_n /\ q.tip_n = r.tip_n
        /\ q.score01 = r.score01 /\ q.rating = r.rating
        /\ q.fillColor = r.fillColor

C22_Witness ==
  /\ pc = "done" /\ Cardinality(df_scored) = 4
  /\ \E r, q \in df_scored :
       /\ r.PULocationID = q.PULocationID /\ KeyOf(r) # KeyOf(q)
       /\ r.pickups = q.pickups /\ r.avg_driver_pay = q.avg_driver_pay
       /\ r.score01 # q.score01 /\ ~IsNaN(r.score01) /\ ~IsNaN(q.score01)

\* the window metrics of the call that pass the min-support filter, of every
\* zone of the shapefile, shown or not
Supported == MinSupport({r \in SqlWin(trips, bin_w) : r.PULocationID \in geo_ids},
                        min_trips_per_window)

\* the rows of df that a rank in the window of r is taken among
Ranking(r, df) == {q \in df : KeyOf(q) = KeyOf(r) /\ ~IsNaN(q.score01)}

\* C23: the min-support filter runs before the normalisation and the shown_ids
\* filter after it: vol_n of a scored row is normalised over the pickups of
\* every supported zone of the window, shown or not; the scored rows are the
\* shown rows of the scoring of all supported metrics, which good_n and bad_n
\* do not enter; the ranks are positions among the shown rows of the window.
C23_FilterOrder ==
  /\ Scored =>
       /\ df_scored = {r \in add_window_scores(Supported) : r.PULocationID \in shown_ids}
       /\ \A r \in df_scored :
            r.vol_n = minmax(Rat(r.pickups, 1),
                             {Rat(q.pickups, 1) : q \in WindowRows(Supported, KeyOf(r))})
  /\ Ranked2 =>
       \A r \in df_poly :
         /\ r.PULocationID \in shown_ids
         /\ ~IsNaN(r.rank_good) =>
              /\ r.rank_good.d = 1
              /\ r.rank_good.n \in 1..Cardinality(Ranking(r, df_scored))
              /\ r.rank_good.n
                   > Cardinality({q \in Ranking(r, df_scored) : RLt(r.score01, q.score01)})
         /\ ~IsNaN(r.rank_bad) =>
              /\ r.rank_bad.d = 1
              /\ r.rank_bad.n \in 1..Cardinality(Ranking(r, df_scored))
              /\ r.rank_bad.n
                   > Cardinality({q \in Ranking(r, df_scored) : RLt(q.score01, r.score01)})

C23_Witness ==
  /\ pc = "done" /\ min_trips_per_window = 2
  /\ Cardinality(SqlWin(trips, bin_w)) = 3 /\ Cardinality(Supported) = 2
  /\ \E q \in Supported : q.PULocationID \notin shown_ids
  /\ Cardinality(df_scored) = 1
  /\ \E r \in df_scored : r.vol_n = Rat(1, 1)

PackRolled == pc = "pack_rolled"

\* C24: for every hour in 0..23, minute in 0..59 and bin_minutes >= 1 the
\* two-step binning of the pack puts a record in the window whose key is the
\* single-step floor((hour*60 + minute) / bin_minutes) * bin_minutes of the
\* other variants.
C24_TwoStepIsSingleStep ==
  (PackRolled /\ bin_minutes >= 1) =>
    \A t \in Base(trips) :
      \E r \in df_win :
        /\ r.PULocationID = TripZone(t) /\ r.dow_m = DowM(TripDow(t))
        /\ r.minute_of_day = TripBin(t, bin_minutes)

\* the records of the window of the rolled-up row r
RolledRecords(r) ==
  {t \in Base(trips) :
     /\ TripZone(t) = r.PULocationID /\ DowM(TripDow(t)) = r.dow_m
     /\ minute_of_day(t.pickup_datetime[2], t.pickup_datetime[3], bin_w) = r.minute_of_day}

\* C25: after the roll-up of the pack each (zone, window) row has the number of
\* records of the window as pickups and the means over the records of the
\* window with a value as avg_driver_pay and avg_tips.
C25_RollUpIsDirect ==
  PackRolled =>
    \A r \in df_win :
      /\ r.pickups = Count(RolledRecords(r))
      /\ r.avg_driver_pay = AvgPay(RolledRecords(r))
      /\ r.avg_tips = AvgTips(RolledRecords(r))

\* build_metrics has returned and the min-support filter has not run
Unfiltered == pc \in {"valid", "select", "filter"}

\* the window rows of zone z
ZoneWindows(z) == {q \in df_win : q.PULocationID = z}

\* C26: build_metrics conserves the counts: every record with a zone id and a
\* pickup time is in exactly one (zone, window) row, the lifetime total of a
\* zone is the sum of the pickups of its window rows, and there is one row per
\* (zone, window).
C26_CountsConserved ==
  Unfiltered =>
    /\ \A t \in Base(trips) : Cardinality(RowsOf(t, df_win)) = 1
    /\ {q.PULocationID : q \in df_win} = TotalIds
    /\ \A r \in df_total :
         r.pickups_total = SumPairs({<<q, q.pickups>> : q \in ZoneWindows(r.PULocationID)})
    /\ \A q, r \in df_win :
         (q.PULocationID = r.PULocationID /\ KeyOf(q) = KeyOf(r)) => q = r
    /\ SumPairs({<<q, q.pickups>> : q \in df_win}) = Count(Base(trips))

C26_Witness ==
  /\ pc = "filter"
  /\ \E t \in trips : t.PULocationID = Some(1) /\ t.pickup_datetime = NULL
  /\ \E r \in df_total :
       /\ Cardinality(ZoneWindows(r.PULocationID)) = 2
       /\ r.pickups_total > 2

\* the valid-zone filter of build_hotspots_json has run
Validated ==
  /\ variant = "json"
  /\ pc \in {"select", "filter", "score", "rank", "frames", "features", "done"}

\* C27: in build_hotspots_json the zones outside the zone geometry are removed
\* from the totals and the window metrics before selection and scoring: good_ids,
\* bad_ids and shown_ids hold geometry zones only, and the min and max of a
\* window are taken over the supported rows of the geometry zones.
C27_OnlyGeometryZones ==
  Validated =>
    /\ \A r \in df_total \cup df_win : r.PULocationID \in geo_ids
    /\ good_ids \subseteq geo_ids /\ bad_ids \subseteq geo_ids
    /\ shown_ids \subseteq geo_ids
    /\ Scored =>
         \A r \in df_scored :
           /\ r.PULocationID \in geo_ids
           /\ r.vol_n = minmax(Rat(r.pickups, 1),
                               {Rat(q.pickups, 1) : q \in WindowRows(Supported, KeyOf(r))})

C27_Witness ==
  /\ variant = "json" /\ pc = "done"
  /\ Cardinality(df_scored) = 2
  /\ \E r \in df_scored : r.vol_n = Rat(1, 1)
  /\ \E q \in SqlWin(trips, bin_w) :
       /\ q.PULocationID \notin geo_ids
       /\ \A r \in df_scored : q.pickups > r.pickups

\* C30: scale_1_100 returns an integer of 1..100 for every number, and the
\* patch of an HTML that was patched before leaves the property as it is:
\* scale_1_100(scale_1_100(v)) = scale_1_100(v).
C30_NoDoubleScaling ==
  /\ [](patched >= 1 /\ prop # NULL => prop[1].d = 1 /\ prop[1].n \in 1..100)
  /\ [][patched >= 1 => prop' = prop]_vars

\* the slider was moved and no redraw is pending
Settled == pc = "ready" /\ polyTimeout > 0 /\ timers = {}

\* both layers and the label are those of the frame of index idx, if it has one
ShowsFrame(idx) ==
  LET b == Bundle(idx, timeline, dataByTime)
  IN  b # NULL =>
        /\ polyLayer = b[1].polygons /\ markerLayer = b[1].markers
        /\ timeLabel = formatTimeLabel(timeline[idx + 1])

\* C28: at most one polygon redraw is pending and it is the one of the last
\* slider input (an earlier one was cancelled and never runs after it); a
\* pending redraw runs once the inputs stop, and then both layers show the
\* frame of the last slider index.
C28_SliderDebounce ==
  /\ [](/\ Cardinality(timers) <= 1
        /\ \A t \in timers : t.id = polyTimeout /\ t.idx = slider_value)
  /\ [](Settled => ShowsFrame(slider_value))
  /\ (timers # {}) ~> Settled

C28_Witness ==
  /\ Settled /\ polyTimeout >= 2 /\ slider_value = 1
  /\ Bundle(0, timeline, dataByTime) # NULL /\ Bundle(1, timeline, dataByTime) # NULL
  /\ Bundle(0, timeline, dataByTime) # Bundle(1, timeline, dataByTime)
  /\ polyLayer = Bundle(1, timeline, dataByTime)[1].polygons

\* C29: a slider input (the markers-only render) leaves the polygon layer as it
\* is and puts the markers of the frame of the index in the marker layer; a
\* render of an index without a frame in dataByTime, light or full, leaves the
\* label, the polygons and the markers as they are.
C29_RenderEffects ==
  [][/\ polyTimeout' # polyTimeout /\ pc = "ready" =>
          /\ polyLayer' = polyLayer
          /\ IF Bundle(slider_value', timeline, dataByTime) = NULL
             THEN UNCHANGED <<timeLabel, markerLayer>>
             ELSE markerLayer' = Bundle(slider_value', timeline, dataByTime)[1].markers
     /\ timers' # timers /\ polyTimeout' = polyTimeout /\ pc = "ready" =>
          \A t \in timers \ timers' :
            Bundle(t.idx, timeline, dataByTime) = NULL =>
              UNCHANGED <<timeLabel, polyLayer, markerLayer>>
     /\ pc = "load" /\ pc' = "ready" /\ Bundle(0, timeline', dataByTime') = NULL =>
          /\ UNCHANGED <<polyLayer, markerLayer>>
          /\ timeLabel' \in {"Loading data...", "No data in hotspots JSON (frames empty)"}
    ]_vars

C29_Witness ==
  /\ pc = "ready" /\ timers # {}
  /\ Bundle(slider_value, timeline, dataByTime) # NULL
  /\ markerLayer = Bundle(slider_value, timeline, dataByTime)[1].markers
  /\ polyLayer # Bundle(slider_value, timeline, dataByTime)[1].polygons
  /\ polyLayer # {}

====
